---- MODULE Spec2Model ----
(***************************************************************************)
(* A model of gene_finder.py: complement / reverse complement, ORF         *)
(* extraction, the single-frame scanner, the multi-frame and dual-strand   *)
(* aggregation, the longest ORF, the shuffle-based threshold and the       *)
(* translation to amino acids.                                             *)
(*                                                                         *)
(* A Python str of nucleotides is a sequence of one-character strings; a   *)
(* Python list of str is a sequence of such sequences.  Python indices are *)
(* 0-based, so s[a:b] is Slice(s, a, b).                                   *)
(***************************************************************************)
EXTENDS Integers, Sequences, FiniteSets, TLC

\* ------------------------------------------------------------------ bounds

\* Every strand of at most MaxLen nucleotides is an input.
MaxLen == 7
\* The strands handed to noncoding_orf_threshold have at most MaxShuffleLen
\* nucleotides.
MaxShuffleLen == 4
\* num_trials ranges over 0..MaxTrials.
MaxTrials == 2

\* ------------------------------------------------------- data and helpers

Nucleotide == {"A", "T", "C", "G"}

SeqsUpTo(n) == UNION {[1..k -> Nucleotide] : k \in 0..n}

\* The strands of test_gene_finder.py.
TestStrands ==
    { <<"A","T","G","T","G","A">>,
      <<"A","T","G","A","A","A">>,
      <<"A","T","G","A">>,
      <<"A","T","G","A","T","G","A","T","T","T","G","A">>,
      <<"A","T","G","T","G","A","A">>,
      <<"A","T","G","T","A","A","A","T","G","A","A","A","T","A","A">>,
      <<"A","A","T","A","T","G","A","T","G","A","A","A","T","G","A">>,
      <<"A","A","A","A","A","A","A","A">>,
      <<"A","T","G","A","T","G","T","G","A","A","T","G","T","G","A">>,
      <<"A","T","G","A","A","T","T","G","A","A","T","G">>,
      <<"A","T","G","T","G","A","A","A","T","G","T","G","A">>,
      <<"A","A","T","G","G","A","A","T","G","A","A","T","T","G","A","T","G","T","G","A">>,
      <<"A","T","G","C","A","T">>,
      <<"T","C","A","A","T","G","A","A","T","G","T","G","A","C","T","T","G","A","C","A","T">>,
      <<"A","T","G","A","A","A","A","A","A","A","A","A">>,
      <<"A","T","G","T","G","A","T","T","A","A","A","A","C","A","T">>,
      <<"A","T","G","C","C","C","G","C","T","T","T">> }

Inputs == SeqsUpTo(MaxLen) \cup TestStrands

MinOf(a, b) == IF a < b THEN a ELSE b

\* Python's s[a:b] for 0 <= a, 0 <= b (the slice is clipped to the string).
Slice(s, a, b) == SubSeq(s, a + 1, MinOf(b, Len(s)))

\* Python's s[a:].
From(s, a) == SubSeq(s, a + 1, Len(s))

\* range(0, n, step) as the ascending sequence of its values.
RECURSIVE RangeFrom(_, _, _)
RangeFrom(a, n, step) ==
    IF a >= n THEN << >> ELSE << a >> \o RangeFrom(a + step, n, step)

\* helpers.amino_acid is applied to windows shorter than 3 by rest_of_orf and
\* find_all_orfs_one_frame; there it yields no amino-acid symbol.
NoSymbol == ""

NucleotideIndex(n) ==
    CASE n = "T" -> 0 [] n = "C" -> 1 [] n = "A" -> 2 [] n = "G" -> 3

\* The standard genetic code, codons ordered over T, C, A, G.
CodonTable ==
    << "F","F","L","L","S","S","S","S","Y","Y","*","*","C","C","*","W",
       "L","L","L","L","P","P","P","P","H","H","Q","Q","R","R","R","R",
       "I","I","I","M","T","T","T","T","N","N","K","K","S","S","R","R",
       "V","V","V","V","A","A","A","A","D","D","E","E","G","G","G","G" >>

\* helpers.amino_acid: the amino-acid symbol of a codon, "*" for a stop codon.
amino_acid(codon) ==
    IF Len(codon) = 3
    THEN CodonTable[16 * NucleotideIndex(codon[1])
                    + 4 * NucleotideIndex(codon[2])
                    + NucleotideIndex(codon[3]) + 1]
    ELSE NoSymbol

\* helpers.shuffle: the orders the nucleotides of a strand can be returned in.
shuffle(strand) ==
    { [k \in 1..Len(strand) |-> strand[p[k]]] : p \in Permutations(1..Len(strand)) }

\* ------------------------------------------------------- strand utilities

get_complement_G_unpaired(nucleotide) ==
    CASE nucleotide = "A" -> "T"
      [] nucleotide = "T" -> "A"
      [] nucleotide = "C" -> "G"
      [] OTHER -> "G"

get_complement(nucleotide) ==
    CASE nucleotide = "A" -> "T"
      [] nucleotide = "T" -> "A"
      [] nucleotide = "C" -> "G"
      [] nucleotide = "G" -> "C"
      [] OTHER -> "None"

\* strand[::-1]
RECURSIVE Reversed(_)
Reversed(s) ==
    IF s = << >> THEN << >> ELSE Append(Reversed(Tail(s)), Head(s))

RECURSIVE ComplementEach(_, _)
ComplementEach(rev, complementary_strand) ==
    IF rev = << >> THEN complementary_strand
    ELSE ComplementEach(Tail(rev),
                        Append(complementary_strand, get_complement(Head(rev))))

get_reverse_complement(strand) == ComplementEach(Reversed(strand), << >>)

\* ---------------------------------------------------------- ORF extractor

\* for i in range(i, len(strand), step): the first window that is a stop
\* codon of length 3 ends the ORF; without one the strand is returned.
RECURSIVE rest_of_orf_scan(_, _, _)
rest_of_orf_scan(strand, i, step) ==
    IF i >= Len(strand) THEN strand
    ELSE IF amino_acid(Slice(strand, i, i + 3)) = "*"
            /\ Len(Slice(strand, i, i + 3)) = 3
         THEN Slice(strand, 0, i)
         ELSE rest_of_orf_scan(strand, i + step, step)

rest_of_orf_any_frame(strand) == rest_of_orf_scan(strand, 0, 1)

rest_of_orf(strand) == rest_of_orf_scan(strand, 0, 3)

\* ----------------------------------------------------- single-frame scanner

\* One iteration of the while loop: the ORFs after it.
scan_orfs(strand, i, orfs) ==
    IF amino_acid(Slice(strand, i, i + 3)) = "M"
    THEN Append(orfs, rest_of_orf(From(strand, i)))
    ELSE orfs

scan_index_no_skip(strand, i) == i + 3

scan_index_next_nucleotide(strand, i) ==
    IF amino_acid(Slice(strand, i, i + 3)) = "M"
    THEN i + Len(rest_of_orf(From(strand, i))) + 1
    ELSE i + 1

\* One iteration of the while loop: the scan index after it.
scan_index(strand, i) ==
    IF amino_acid(Slice(strand, i, i + 3)) = "M"
    THEN i + Len(rest_of_orf(From(strand, i))) + 3
    ELSE i + 3

RECURSIVE scan_loop(_, _, _)
scan_loop(strand, i, orfs) ==
    IF i < Len(strand)
    THEN scan_loop(strand, scan_index(strand, i), scan_orfs(strand, i, orfs))
    ELSE orfs

find_all_orfs_one_frame(strand) == scan_loop(strand, 0, << >>)

\* ------------------------------------------------ multi-frame, dual-strand

\* elements != []: elements is a str, and a Python str never equals a list.
StrNotEqualEmptyList(elements) == TRUE

RECURSIVE AppendElements(_, _)
AppendElements(all_orfs, found) ==
    IF found = << >> THEN all_orfs
    ELSE AppendElements(
             IF StrNotEqualEmptyList(Head(found))
             THEN Append(all_orfs, Head(found)) ELSE all_orfs,
             Tail(found))

RECURSIVE find_all_orfs_frames(_, _, _, _)
find_all_orfs_frames(strand, i, n, all_orfs) ==
    IF i >= n THEN all_orfs
    ELSE find_all_orfs_frames(strand, i + 1, n,
             AppendElements(all_orfs, find_all_orfs_one_frame(From(strand, i))))

find_all_orfs_two_frames(strand) == find_all_orfs_frames(strand, 0, 2, << >>)

find_all_orfs(strand) == find_all_orfs_frames(strand, 0, 3, << >>)

find_all_orfs_both_strands(strand) ==
    find_all_orfs(strand) \o find_all_orfs(get_reverse_complement(strand))

\* max(list, key=len): the first element of the greatest length; ValueError
\* on an empty list.
RECURSIVE FirstLongest(_, _)
FirstLongest(best, rest) ==
    IF rest = << >> THEN best
    ELSE FirstLongest(IF Len(Head(rest)) > Len(best) THEN Head(rest) ELSE best,
                      Tail(rest))

MaxByLen(list) ==
    IF list = << >>
    THEN [raised |-> "ValueError", value |-> << >>]
    ELSE [raised |-> "", value |-> FirstLongest(Head(list), Tail(list))]

find_longest_orf_forward_only(strand) == MaxByLen(find_all_orfs(strand))

find_longest_orf_default_empty(strand) ==
    IF find_all_orfs_both_strands(strand) = << >>
    THEN [raised |-> "", value |-> << >>]
    ELSE MaxByLen(find_all_orfs_both_strands(strand))

find_longest_orf(strand) == MaxByLen(find_all_orfs_both_strands(strand))

\* ------------------------------------------------------------- translator

RECURSIVE Codons(_, _)
Codons(orf, starts) ==
    IF starts = << >> THEN << >>
    ELSE << Slice(orf, Head(starts), Head(starts) + 3) >> \o Codons(orf, Tail(starts))

RECURSIVE AminoAcidSequence(_, _)
AminoAcidSequence(codons, amino_acid_sequence) ==
    IF codons = << >> THEN amino_acid_sequence
    ELSE AminoAcidSequence(
             Tail(codons),
             IF Len(Head(codons)) = 3
             THEN Append(amino_acid_sequence, amino_acid(Head(codons)))
             ELSE amino_acid_sequence)

encode_amino_acids_every_window(orf) ==
    AminoAcidSequence(Codons(orf, RangeFrom(0, Len(orf), 1)), << >>)

encode_amino_acids(orf) ==
    AminoAcidSequence(Codons(orf, RangeFrom(0, Len(orf), 3)), << >>)

\* ---------------------------------------------------- threshold estimator

threshold_update_always(long_orf, shortest) == long_orf

\* The running value after a trial whose longest ORF is long_orf.
threshold_update(long_orf, shortest) ==
    IF Len(long_orf) < Len(shortest) THEN long_orf ELSE shortest

\* ------------------------------------------------------------------ state

VARIABLES
    strand,             \* the argument of the call
    op,                 \* the function called, "" before the call
    pc,                 \* "idle", "scan", "trials", "done" (returned), "error" (raised)
    result,             \* the value returned
    raised,             \* the exception raised, "" when none
    i,                  \* find_all_orfs_one_frame: the scan index
    orfs,               \* find_all_orfs_one_frame: the ORFs found so far
    indices,            \* history: the scan index at the start of each iteration
    num_trials,         \* noncoding_orf_threshold: its second argument
    trial,              \* noncoding_orf_threshold: the trials completed
    shortest_long_orf,  \* noncoding_orf_threshold: the running value
    long_orf_lens,      \* history: len(long_orf) of each trial so far
    lengths             \* history: len(shortest_long_orf) at the start and after each trial

vars == << strand, op, pc, result, raised, i, orfs, indices,
           num_trials, trial, shortest_long_orf, long_orf_lens, lengths >>

scanVars == << i, orfs, indices >>
trialVars == << num_trials, trial, shortest_long_orf, long_orf_lens, lengths >>

Init ==
    /\ strand \in Inputs
    /\ op = ""
    /\ pc = "idle"
    /\ result = << >>
    /\ raised = ""
    /\ i = 0
    /\ orfs = << >>
    /\ indices = << >>
    /\ num_trials = 0
    /\ trial = 0
    /\ shortest_long_orf = << >>
    /\ long_orf_lens = << >>
    /\ lengths = << >>

\* A call of a function that returns `value` without raising.
Returns(name, value) ==
    /\ pc = "idle"
    /\ op' = name
    /\ pc' = "done"
    /\ result' = value
    /\ UNCHANGED << strand, raised, scanVars, trialVars >>

call_get_reverse_complement ==
    Returns("get_reverse_complement", get_reverse_complement(strand))

call_rest_of_orf == Returns("rest_of_orf", rest_of_orf(strand))

call_find_all_orfs == Returns("find_all_orfs", find_all_orfs(strand))

call_find_all_orfs_both_strands ==
    Returns("find_all_orfs_both_strands", find_all_orfs_both_strands(strand))

call_encode_amino_acids == Returns("encode_amino_acids", encode_amino_acids(strand))

call_find_longest_orf ==
    /\ pc = "idle"
    /\ op' = "find_longest_orf"
    /\ LET r == find_longest_orf(strand) IN
         /\ raised' = r.raised
         /\ pc' = IF r.raised = "" THEN "done" ELSE "error"
         /\ result' = IF r.raised = "" THEN r.value ELSE result
    /\ UNCHANGED << strand, scanVars, trialVars >>

NextPure ==
    \/ call_get_reverse_complement
    \/ call_rest_of_orf
    \/ call_find_all_orfs
    \/ call_find_all_orfs_both_strands
    \/ call_find_longest_orf
    \/ call_encode_amino_acids

SpecPure == Init /\ [][NextPure]_vars

\* ------------------------------------- find_all_orfs_one_frame, step by step

call_find_all_orfs_one_frame ==
    /\ pc = "idle"
    /\ op' = "find_all_orfs_one_frame"
    /\ pc' = "scan"
    /\ i' = 0
    /\ orfs' = << >>
    /\ indices' = << >>
    /\ UNCHANGED << strand, result, raised, trialVars >>

\* One iteration of `while i < len(strand)`.
scan_iteration ==
    /\ pc = "scan"
    /\ i < Len(strand)
    /\ orfs' = scan_orfs(strand, i, orfs)
    /\ i' = scan_index(strand, i)
    /\ indices' = Append(indices, i)
    /\ UNCHANGED << strand, op, pc, result, raised, trialVars >>

scan_return ==
    /\ pc = "scan"
    /\ ~(i < Len(strand))
    /\ result' = orfs
    /\ pc' = "done"
    /\ UNCHANGED << strand, op, raised, scanVars, trialVars >>

NextScan ==
    \/ call_find_all_orfs_one_frame
    \/ scan_iteration
    \/ scan_return

SpecScan == Init /\ [][NextScan]_vars

\* ------------------------------------- noncoding_orf_threshold, step by step

call_noncoding_orf_threshold ==
    /\ pc = "idle"
    /\ Len(strand) <= MaxShuffleLen
    /\ \E n \in 0..MaxTrials : num_trials' = n
    /\ op' = "noncoding_orf_threshold"
    /\ pc' = "trials"
    /\ trial' = 0
    /\ shortest_long_orf' = strand
    /\ long_orf_lens' = << >>
    /\ lengths' = << Len(strand) >>
    /\ UNCHANGED << strand, result, raised, scanVars >>

\* One iteration of `for _ in range(num_trials)` in which find_longest_orf
\* returns.
trial_done ==
    /\ pc = "trials"
    /\ trial < num_trials
    /\ \E shuffled_strand \in shuffle(strand) :
         LET r == find_longest_orf(shuffled_strand) IN
           /\ r.raised = ""
           /\ shortest_long_orf' = threshold_update(r.value, shortest_long_orf)
           /\ long_orf_lens' = Append(long_orf_lens, Len(r.value))
    /\ lengths' = Append(lengths, Len(shortest_long_orf'))
    /\ trial' = trial + 1
    /\ UNCHANGED << strand, op, pc, result, raised, num_trials, scanVars >>

\* One iteration in which find_longest_orf raises: the exception leaves
\* noncoding_orf_threshold, which returns nothing.
trial_raises ==
    /\ pc = "trials"
    /\ trial < num_trials
    /\ \E shuffled_strand \in shuffle(strand) :
         LET r == find_longest_orf(shuffled_strand) IN
           /\ r.raised # ""
           /\ raised' = r.raised
    /\ pc' = "error"
    /\ UNCHANGED << strand, op, result, scanVars, trialVars >>

threshold_return ==
    /\ pc = "trials"
    /\ ~(trial < num_trials)
    /\ result' = Len(shortest_long_orf)
    /\ pc' = "done"
    /\ UNCHANGED << strand, op, raised, scanVars, trialVars >>

NextThreshold ==
    \/ call_noncoding_orf_threshold
    \/ trial_done
    \/ trial_raises
    \/ threshold_return

SpecThreshold == Init /\ [][NextThreshold]_vars

Next == NextPure \/ NextScan \/ NextThreshold

Spec == Init /\ [][Next]_vars

\* ------------------------------------------------------------- properties

Returned(name) == op = name /\ pc = "done"

StopCodons == {c \in [1..3 -> Nucleotide] : amino_acid(c) = "*"}

\* The indices of strand s that hold the three nucleotides of codon set C.
Holds(s, k, C) == k + 3 <= Len(s) /\ SubSeq(s, k + 1, k + 3) \in C

InFrameStops(s) == {k \in 0..Len(s) : k % 3 = 0 /\ Holds(s, k, StopCodons)}

Least(S) == CHOOSE k \in S : \A j \in S : k <= j

\* What C1 says rest_of_orf(s) is.
OrfFrom(s) ==
    IF InFrameStops(s) = {} THEN s ELSE SubSeq(s, 1, Least(InFrameStops(s)))

\* C1: rest_of_orf(s) is the prefix of s before the first stop codon at an
\* index that is a multiple of 3, and s itself (remainder of 1 or 2
\* nucleotides included) when there is none; a stop codon at another index
\* does not end the ORF.
C1_RestOfOrf == Returned("rest_of_orf") => result = OrfFrom(strand)

\* C1's case: an ORF ended by an in-frame stop codon although a stop-codon
\* triplet lies out of frame inside it.
C1_Witness ==
    /\ Returned("rest_of_orf")
    /\ Len(result) < Len(strand)
    /\ \E k \in 0..Len(result) :
         k % 3 # 0 /\ k + 3 <= Len(result) /\ Holds(strand, k, StopCodons)

StartCodon == { <<"A", "T", "G">> }

\* What C2 says of index k: it is a multiple of 3, holds ATG, and lies neither
\* inside an ORF reported before it nor on the stop codon that ended that ORF.
RECURSIVE IsReported(_, _)
IsReported(s, k) ==
    /\ k % 3 = 0
    /\ Holds(s, k, StartCodon)
    /\ \A j \in {m \in 0..(k - 1) : m % 3 = 0} :
         IsReported(s, j) => k >= j + Len(OrfFrom(From(s, j))) + 3

RECURSIVE OrfsFrom(_, _)
OrfsFrom(s, k) ==
    IF k >= Len(s) THEN << >>
    ELSE (IF IsReported(s, k) THEN << OrfFrom(From(s, k)) >> ELSE << >>)
         \o OrfsFrom(s, k + 1)

\* C2: find_all_orfs_one_frame(s) is, from left to right, the ORF starting at
\* each index that is a multiple of 3, holds ATG and is not inside an ORF
\* reported before (nor on its stop codon).
C2_OneFrame ==
    Returned("find_all_orfs_one_frame") => result = OrfsFrom(strand, 0)

\* C2's case: two ORFs are reported, and an in-frame start codon nested in
\* one of them is not.
C2_Witness ==
    /\ Returned("find_all_orfs_one_frame")
    /\ Len(result) >= 2
    /\ \E k \in 0..Len(strand) :
         k % 3 = 0 /\ Holds(strand, k, StartCodon) /\ ~IsReported(strand, k)

\* C3: the complement of the complement of a nucleotide is the nucleotide,
\* and the reverse complement of the reverse complement of a strand is the
\* strand.
C3_DoubleComplement ==
    /\ \A n \in Nucleotide : get_complement(get_complement(n)) = n
    /\ Returned("get_reverse_complement")
         => get_reverse_complement(result) = strand

\* C3's case: the reverse complement of a strand that holds the four
\* nucleotides and is not its own reverse complement.
C3_Witness ==
    /\ Returned("get_reverse_complement")
    /\ {strand[k] : k \in 1..Len(strand)} = Nucleotide
    /\ result # strand

ThreeFrames(s) ==
    find_all_orfs_one_frame(From(s, 0))
    \o find_all_orfs_one_frame(From(s, 1))
    \o find_all_orfs_one_frame(From(s, 2))

C5_Longest ==
    (op = "find_longest_orf" /\ find_all_orfs_both_strands(strand) # << >>)
    => /\ pc = "done"
       /\ \E k \in 1..Len(find_all_orfs_both_strands(strand)) :
            result = find_all_orfs_both_strands(strand)[k]
       /\ \A k \in 1..Len(find_all_orfs_both_strands(strand)) :
            Len(result) >= Len(find_all_orfs_both_strands(strand)[k])

\* C5's case: the strand has ORFs of its own, and the longest is on the
\* reverse complement alone.
C5_Witness ==
    /\ Returned("find_longest_orf")
    /\ ThreeFrames(strand) # << >>
    /\ \A k \in 1..Len(ThreeFrames(strand)) :
         Len(ThreeFrames(strand)[k]) < Len(result)

\* C6: on a strand without an ORF on either strand, find_longest_orf raises
\* and returns nothing.
C6_NoOrfRaises ==
    (op = "find_longest_orf" /\ find_all_orfs_both_strands(strand) = << >>)
    => pc = "error" /\ raised = "ValueError"

\* C6's case: find_longest_orf has raised on a strand of at least one codon.
C6_Witness ==
    /\ op = "find_longest_orf"
    /\ pc = "error"
    /\ Len(strand) >= 3

RECURSIVE MinOfSeq(_)
MinOfSeq(q) ==
    IF Len(q) = 1 THEN Head(q) ELSE MinOf(Head(q), MinOfSeq(Tail(q)))

\* C7: for every strand and num_trials >= 1, noncoding_orf_threshold returns
\* the least of the lengths of the longest ORFs of its num_trials shuffles.
C7_MinOfLongest ==
    (op = "noncoding_orf_threshold" /\ num_trials >= 1 /\ pc \in {"done", "error"})
    => /\ pc = "done"
       /\ Len(long_orf_lens) = num_trials
       /\ result = MinOfSeq(long_orf_lens)

\* The part of C7 that the code keeps: a call that returns, returns that least
\* length.
C7_WhenReturned ==
    (Returned("noncoding_orf_threshold") /\ num_trials >= 1)
    => /\ Len(long_orf_lens) = num_trials
       /\ result = MinOfSeq(long_orf_lens)

\* C8: the length of the running value starts at len(strand) and no trial
\* raises it; the value returned is the last one, at most len(strand), and
\* len(strand) when num_trials is 0.
C8_RunningMinimum ==
    op = "noncoding_orf_threshold"
    => /\ lengths[1] = Len(strand)
       /\ lengths[Len(lengths)] = Len(shortest_long_orf)
       /\ \A k \in 1..(Len(lengths) - 1) : lengths[k + 1] <= lengths[k]
       /\ pc = "done"
            => /\ result = lengths[num_trials + 1]
               /\ result <= Len(strand)
               /\ num_trials = 0 => result = Len(strand)

\* C8's case: two trials, the second of which lowered the running value.
C8_Witness ==
    /\ Returned("noncoding_orf_threshold")
    /\ num_trials = 2
    /\ lengths[3] < lengths[2]

\* C9: encode_amino_acids(orf) has one symbol for each full codon of orf, the
\* codon table's, and none for a remainder of 1 or 2 nucleotides.
C9_Encode ==
    Returned("encode_amino_acids")
    => /\ Len(result) = Len(strand) \div 3
       /\ \A k \in 0..(Len(result) - 1) :
            result[k + 1] = amino_acid(SubSeq(strand, 3 * k + 1, 3 * k + 3))

\* C9's case: two codons and a remainder.
C9_Witness ==
    /\ Returned("encode_amino_acids")
    /\ Len(strand) % 3 # 0
    /\ Len(result) >= 2

\* C10: each iteration of find_all_orfs_one_frame's loop raises the scan
\* index by at least 3, and there are at most ceil(len(strand) / 3) of them.
C10_ScanAdvances ==
    op = "find_all_orfs_one_frame"
    => /\ \A k \in 1..(Len(indices) - 1) : indices[k + 1] >= indices[k] + 3
       /\ indices # << >> => i >= indices[Len(indices)] + 3
       /\ Len(indices) <= (Len(strand) + 2) \div 3

\* C10's case: the scan ended after reporting an ORF that the end of the
\* strand cut off inside a codon.
C10_Witness ==
    /\ Returned("find_all_orfs_one_frame")
    /\ Len(indices) >= 2
    /\ Len(strand) % 3 # 0
    /\ result # << >>
    /\ Len(result[Len(result)]) % 3 # 0

====
